---- MODULE Spec2Model ----
(***************************************************************************)
(* The message pipeline of the Jangaloga Telegram bot (src/bot.py) on one  *)
(* asyncio event loop.  A handler runs on the loop from one await to the   *)
(* next without interruption, so every action below is one such segment:   *)
(* the completion of the awaited call the handler is suspended in, followed*)
(* by the synchronous code up to the next await.  The long synchronous     *)
(* calls (translate_text, the first-use model constructors) are states of  *)
(* their own in which the handler owns the loop.                           *)
(*                                                                         *)
(* Spec is the pipeline.  TranslateSpec is Dictionary.translate_text on its *)
(* own (src/translator.py), LexiconSpec is load, add and save of the        *)
(* Dictionary, ToolSpec is generate_jg (src/jg_generator.py) and the        *)
(* dictionary build tool (src/build_dictionary.py).                         *)
(***************************************************************************)
EXTENDS Integers, Sequences, FiniteSets, TLC

\* ------------------------------------------------------------------ bounds
\* Longest text (in tokens) a message or a transcription carries.
MaxTextLen == 2

\* cfg.max_text_chars, scaled to the model's texts (one token = one character).
max_text_chars == MaxTextLen - 1

\* range(3) of the voice-note loop and range(2) of the send_audio fallback.
VoiceAttemptsOneMore == 3 + 1
VoiceAttempts == 3
AudioAttempts == 2

\* The handler invocations in flight at the same time.  A record is reused by a
\* later message once its invocation has ended, so any number of messages is
\* processed; every property below is about one invocation or about a pair.
Msgs == {1, 2}
\* The event loop runs no long synchronous call.
Idle == {}

\* ------------------------------------------------------------------ texts
\* A text is a sequence of tokens as _WORD_RE splits it: a letter run that the
\* dictionary resolves ("known"), a letter run it does not ("unknown"), or a
\* non-letter run ("punct").
Tokens == {"known", "unknown", "punct"}
Texts == UNION {[1..n -> Tokens] : n \in 0..MaxTextLen}
Policies == {"keep_original", "mark_unknown", "drop_unknown"}

\* What translate_text emits for one token: "word" is a run holding letters,
\* "punct" a non-letter run, "" the empty string.
TranslateToken(tok, pol) ==
    IF tok = "punct" THEN "punct"
    ELSE IF tok = "known" THEN "word"
    ELSE IF pol = "drop_unknown" THEN ""
    ELSE "word"

translate_text(ru_text, pol) ==
    [i \in 1..Len(ru_text) |-> TranslateToken(ru_text[i], pol)]

\* _HAS_WORD_RE.search(jg_text): some letter is left in the translation.
HasWordNever(jg_text) == TRUE
HasWord(jg_text) == \E i \in 1..Len(jg_text) : jg_text[i] = "word"

\* ------------------------------------------------------------------ strings
\* A string is a sequence of characters.  The letters of a source text are "a",
\* "e" and "yo" (the letter that _norm_ru folds into "e") with their capitals,
\* the letters of a target word are "g" and "u" with theirs; " " is whitespace,
\* "," punctuation, "[[" and "]]" the bracket pair of mark_unknown.
LowerLetters == {"a", "e", "yo", "g", "u"}
UpperLetters == {"A", "E", "YO", "G", "U"}
Letters == LowerLetters \cup UpperLetters

\* str.lower and str.upper on one character.
Lower(c) ==
    CASE c = "A" -> "a" [] c = "E" -> "e" [] c = "YO" -> "yo"
      [] c = "G" -> "g" [] c = "U" -> "u" [] OTHER -> c
Upper(c) ==
    CASE c = "a" -> "A" [] c = "e" -> "E" [] c = "yo" -> "YO"
      [] c = "g" -> "G" [] c = "u" -> "U" [] OTHER -> c

lower(s) == [i \in 1..Len(s) |-> Lower(s[i])]
upper(s) == [i \in 1..Len(s) |-> Upper(s[i])]

\* str.isupper / str.islower on a run of letters: it is not empty and every
\* character has that case.
isupper(s) == Len(s) > 0 /\ \A i \in 1..Len(s) : s[i] \in UpperLetters
islower(s) == Len(s) > 0 /\ \A i \in 1..Len(s) : s[i] \in LowerLetters

\* str.strip: the whitespace at both ends is removed.
RECURSIVE lstrip(_)
lstrip(s) == IF s # <<>> /\ Head(s) = " " THEN lstrip(Tail(s)) ELSE s
RECURSIVE rstrip(_)
rstrip(s) ==
    IF s # <<>> /\ s[Len(s)] = " " THEN rstrip(SubSeq(s, 1, Len(s) - 1)) ELSE s
strip(s) == rstrip(lstrip(s))

\* _norm_ru (translator.py 17-19): lowercase, then "yo" becomes "e".
norm_ru(word) ==
    LET w == lower(word) IN [i \in 1..Len(w) |-> IF w[i] = "yo" THEN "e" ELSE w[i]]

\* _apply_case_like (translator.py 22-29).
apply_case_like_capitalize(template, word) ==
    IF word = <<>> THEN word
    ELSE IF isupper(template) THEN upper(word)
    ELSE IF isupper(SubSeq(template, 1, 1)) /\ islower(SubSeq(template, 2, Len(template)))
    THEN <<Upper(word[1])>> \o lower(SubSeq(word, 2, Len(word)))
    ELSE word
apply_case_like(template, word) ==
    IF word = <<>> THEN word
    ELSE IF isupper(template) THEN upper(word)
    ELSE IF isupper(SubSeq(template, 1, 1)) /\ islower(SubSeq(template, 2, Len(template)))
    THEN <<Upper(word[1])>> \o SubSeq(word, 2, Len(word))
    ELSE word

\* _WORD_RE.findall (translator.py 14, 111): the text is cut into its maximal
\* runs of letters and its maximal runs of other characters, in order.
RECURSIVE findall(_)
findall(s) ==
    IF s = <<>> THEN <<>>
    ELSE LET first == Head(s) \in Letters
             same(i) == \A j \in 1..i : (s[j] \in Letters) = first
             n == CHOOSE i \in 1..Len(s) :
                      same(i) /\ (i = Len(s) \/ ~same(i + 1))
         IN  <<SubSeq(s, 1, n)>> \o findall(SubSeq(s, n + 1, Len(s)))

\* re.fullmatch(r"[A-Za-z...]+", tok) on a token of findall.
IsWord(tok) == tok # <<>> /\ \A i \in 1..Len(tok) : tok[i] \in Letters

\* "".join(parts)
RECURSIVE join(_)
join(parts) == IF parts = <<>> THEN <<>> ELSE Head(parts) \o join(Tail(parts))

\* _cleanup_spacing (translator.py 32-41), pass by pass.  No character of the
\* model is an opening bracket or quote, so the third pass changes nothing.
RECURSIVE collapse_whitespace(_)
collapse_whitespace(t) ==
    IF t = <<>> THEN <<>>
    ELSE IF Len(t) > 1 /\ t[1] = " " /\ t[2] = " " THEN collapse_whitespace(Tail(t))
    ELSE <<Head(t)>> \o collapse_whitespace(Tail(t))
RECURSIVE no_space_before_punct(_)
no_space_before_punct(t) ==
    IF t = <<>> THEN <<>>
    ELSE IF Len(t) > 1 /\ t[1] = " " /\ t[2] = "," THEN no_space_before_punct(Tail(t))
    ELSE <<Head(t)>> \o no_space_before_punct(Tail(t))
RECURSIVE space_after_punct(_)
space_after_punct(t) ==
    IF t = <<>> THEN <<>>
    ELSE IF Len(t) > 1 /\ t[1] = "," /\ t[2] \in Letters
    THEN <<",", " ">> \o space_after_punct(Tail(t))
    ELSE <<Head(t)>> \o space_after_punct(Tail(t))
cleanup_spacing(text) ==
    strip(space_after_punct(no_space_before_punct(strip(collapse_whitespace(text)))))

\* ------------------------------------------------------------------ Dictionary
\* The morphology oracle pymorphy3 as _lemma meets it: the module cannot be
\* imported, MorphAnalyzer() raises, morph.parse raises, morph.parse returns no
\* parse, or the first parse carries the normal form.
OracleStates == {"no_module", "ctor_fails", "parse_fails", "no_parses", "ok"}

\* parses[0].normal_form: the lemma of an inflected form is its first letter,
\* a one-letter form is its own lemma.
normal_form(form) == IF Len(form) > 1 THEN SubSeq(form, 1, 1) ELSE form

\* Dictionary._lemma (translator.py 84-107) on the dictionary d, with the oracle
\* in state orc and `cached` telling whether self._morph is set.  The result
\* names the lookup key, whether the oracle was consulted, whether an exception
\* left _lemma, and whether self._morph is set afterwards.
lemma(d, orc, cached, form) ==
    IF ~d.lemmatize_ru
    THEN [key |-> form, asked |-> FALSE, raised |-> FALSE, morph |-> cached]
    ELSE IF orc = "no_module"
    THEN [key |-> form, asked |-> TRUE, raised |-> FALSE, morph |-> cached]
    ELSE IF ~cached /\ orc = "ctor_fails"
    THEN [key |-> form, asked |-> TRUE, raised |-> TRUE, morph |-> FALSE]
    ELSE IF orc \in {"parse_fails", "no_parses"}
    THEN [key |-> form, asked |-> TRUE, raised |-> FALSE, morph |-> TRUE]
    ELSE [key |-> normal_form(form), asked |-> TRUE, raised |-> FALSE, morph |-> TRUE]

\* Lines 119-125 of translate_text: the token no lookup resolved.
fallback_keeps(pol, tok) ==
    IF pol = "mark_unknown" THEN <<"[[">> \o tok \o <<"]]">> ELSE tok
fallback(pol, tok) ==
    IF pol = "drop_unknown" THEN <<>>
    ELSE IF pol = "mark_unknown" THEN <<"[[">> \o tok \o <<"]]">>
    ELSE tok

\* One pass of the loop of translate_text (translator.py 111-129) over the
\* tokens left.  The result lists, token by token, the part appended, the
\* lookup key after _lemma and whether the oracle was consulted; `raised` tells
\* that an exception ended the loop, `morph` whether self._morph is set.
RECURSIVE translate_loop(_, _, _, _)
translate_loop(d, orc, cached, toks) ==
    IF toks = <<>>
    THEN [parts |-> <<>>, keys |-> <<>>, asked |-> <<>>, raised |-> FALSE, morph |-> cached]
    ELSE
    LET tok == Head(toks)
        form == norm_ru(tok)
        miss == IsWord(tok) /\ form \notin DOMAIN d.ru_to_jg
        l == IF miss THEN lemma(d, orc, cached, form)
             ELSE [key |-> form, asked |-> FALSE, raised |-> FALSE, morph |-> cached]
        part == IF ~IsWord(tok) THEN tok
                ELSE IF l.key \in DOMAIN d.ru_to_jg
                THEN apply_case_like(tok, d.ru_to_jg[l.key])
                ELSE fallback(d.fallback_policy, tok)
    IN  IF l.raised
        THEN [parts |-> <<>>, keys |-> <<l.key>>, asked |-> <<l.asked>>,
              raised |-> TRUE, morph |-> l.morph]
        ELSE LET rest == translate_loop(d, orc, l.morph, Tail(toks)) IN
             [parts |-> <<part>> \o rest.parts, keys |-> <<l.key>> \o rest.keys,
              asked |-> <<l.asked>> \o rest.asked,
              raised |-> rest.raised, morph |-> rest.morph]

\* Dictionary.translate_text (translator.py 109-130) on a text of characters:
\* the tokens, the loop over them, and the cleaned-up join when no exception
\* ended the loop.
Dictionary_translate_text(d, orc, cached, ru_text) ==
    LET toks == findall(ru_text)
        run == translate_loop(d, orc, cached, toks)
    IN  [name |-> "translate", text |-> ru_text, oracle |-> orc, cached |-> cached,
         tokens |-> toks,
         parts |-> run.parts, keys |-> run.keys, asked |-> run.asked,
         raised |-> run.raised, morph |-> run.morph,
         out |-> IF run.raised THEN <<>> ELSE cleanup_spacing(join(run.parts))]

\* The lexicon document at dictionary.path.  `state` tells what a reader finds:
\* no file ("absent"), a whole JSON document ("complete"), a file that open()
\* has truncated ("empty"), or the first part of a document ("partial").
DocKeys == {<<"a">>, <<"e">>}
DocValues == {<<>>, <<"g", "U", "u">>}
NoMapping == [k \in {} |-> <<>>]
Mappings == UNION {[ks -> DocValues] : ks \in SUBSET DocKeys}
Document(map, pol, lem) ==
    [state |-> "complete", ru_to_jg |-> map, fallback_policy |-> pol, lemmatize_ru |-> lem]
Unreadable(st) ==
    [state |-> st, ru_to_jg |-> NoMapping, fallback_policy |-> "keep_original",
     lemmatize_ru |-> FALSE]
Documents ==
    {Document(map, pol, lem) : map \in Mappings, pol \in Policies, lem \in BOOLEAN}

\* Dictionary.load (translator.py 51-60): the Dictionary read from doc, or the
\* exception of json.loads on a file that holds no whole document.
load(doc) ==
    IF doc.state = "absent"
    THEN [raised |-> FALSE, ru_to_jg |-> NoMapping, fallback_policy |-> "keep_original",
          lemmatize_ru |-> FALSE]
    ELSE IF doc.state = "complete"
    THEN [raised |-> FALSE, ru_to_jg |-> doc.ru_to_jg,
          fallback_policy |-> doc.fallback_policy, lemmatize_ru |-> doc.lemmatize_ru]
    ELSE [raised |-> TRUE, ru_to_jg |-> NoMapping, fallback_policy |-> "keep_original",
          lemmatize_ru |-> FALSE]

\* ------------------------------------------------------------------ state
VARIABLES
    h,          \* per handler invocation: its position and what it has done
    lock,       \* the handlers inside `async with PROCESS_LOCK`; {} is unlocked
    waiters,    \* PROCESS_LOCK's queue of handlers waiting in acquire()
    loop,       \* the handler in a long synchronous call on the event loop, or Idle
    asrModel,   \* ASR._model is not None
    ttsModel,   \* TTSEngine._tts is not None
    policy,     \* dictionary.fallback_policy
    tempo,      \* abs(cfg.speech_tempo - 1.0) > 1e-6
    ru_to_jg,   \* dictionary.ru_to_jg
    lemmatize_ru, \* dictionary.lemmatize_ru
    morph,      \* dictionary._morph is set
    document,   \* the lexicon document on disk
    saving,     \* a write_text of Dictionary.save has opened the file
    op          \* the last call of an operation of the lexicon or of a tool

\* The fields of the Dictionary object and what lies behind it on disk.
lexvars == <<ru_to_jg, lemmatize_ru, morph, document, saving, op>>
\* The pipeline of bot.py.
botvars == <<h, lock, waiters, loop, asrModel, ttsModel, tempo>>
vars == <<h, lock, waiters, loop, asrModel, ttsModel, policy, tempo, lexvars>>

\* The Dictionary object of the process.
Self == [ru_to_jg |-> ru_to_jg, fallback_policy |-> policy, lemmatize_ru |-> lemmatize_ru]
\* No operation was called yet.
NoOp == [name |-> "none"]

SynthFiles == {"out_wav", "slowed_wav", "out_ogg"}
InputFiles == {"ogg_in", "wav"}

\* The record of a handler invocation.
\*   pc       where the handler is suspended ("idle": no invocation, "done": ended)
\*   kind     "voice" (on_voice), "text" (on_text), "cmd" (cmd_help)
\*   text     ru_text, from its arrival to its translation
\*   files    the temporary files of this invocation that exist on disk
\*   status   the message the variable `status` of on_voice names
\*   textMsg  the message that carries jg_text; textSends counts its sends
\*   ttsStatus the message the variable `status` of _speak_and_send names
\*   reply    the one-off answer the handler ends with; replyState: "none" (not
\*            sent yet), "pending", "shown" or "failed"
\*   notice   the "translation ready, audio not delivered" answer
\*   calls    the collaborators invoked: "download", "asr", "tts", and the
\*            transcoder runs "v_ffmpeg", "s_tempo", "s_encode"
\*   attempt, lastExc  the loop variable and last_exc of _speak_and_send
\*   nVoice, nAudio, nDelivered  answer_voice calls, answer_audio calls, successes
\*   netFails the send attempts that ended in TelegramNetworkError
\*   failed   the stage whose exception ended the pipeline
\*   raised   an exception left the handler
InitRec ==
    [pc |-> "idle", kind |-> "none", text |-> <<>>, files |-> {},
     status |-> "none", textMsg |-> "none", textSends |-> 0, ttsStatus |-> "none",
     reply |-> "none", replyState |-> "none", notice |-> "none", calls |-> {},
     attempt |-> 0, lastExc |-> "none", nVoice |-> 0, nAudio |-> 0, nDelivered |-> 0,
     netFails |-> 0, failed |-> "none", raised |-> FALSE]

\* No handler runs and no engine handle is built (main, bot.py 404-405).
Quiet ==
    /\ h = [m \in Msgs |-> InitRec]
    /\ lock = {}
    /\ waiters = <<>>
    /\ loop = Idle
    /\ asrModel = FALSE
    /\ ttsModel = FALSE

\* The process holds the Dictionary that Dictionary.load made of doc, which
\* lies on disk; no analyzer is cached and no operation was called.
Loaded(doc) ==
    /\ document = doc
    /\ ru_to_jg = load(doc).ru_to_jg
    /\ policy = load(doc).fallback_policy
    /\ lemmatize_ru = load(doc).lemmatize_ru
    /\ morph = FALSE
    /\ saving = FALSE
    /\ op = NoOp

\* The documents the bot is started on (main, bot.py 385-390, refuses to start
\* without one): the word "a" has the target "gUu", under either policy and
\* with or without lemmatization.
ServedDocuments ==
    {Document([k \in {<<"a">>} |-> <<"g", "U", "u">>], pol, lem) :
        pol \in Policies, lem \in BOOLEAN}

Init ==
    /\ Quiet
    /\ tempo \in BOOLEAN
    /\ \E doc \in ServedDocuments : Loaded(doc)

\* ------------------------------------------------------------------ stages
StageOf(pc) ==
    CASE pc = "v_ffmpeg" -> "transcode_in"
      [] pc \in {"v_asr_load", "v_asr_run"} -> "asr"
      [] pc \in {"v_translate", "t_translate"} -> "translate"
      [] pc \in {"s_tts_load", "s_tts_run"} -> "synth"
      [] pc \in {"s_tempo", "s_encode"} -> "tempo_encode"
      [] pc \in {"s_voice", "s_voice_sleep", "s_audio", "s_audio_sleep"} -> "delivery"
      [] OTHER -> "other"

HeavyStages == {"transcode_in", "asr", "synth", "tempo_encode", "delivery"}

\* ------------------------------------------------------------------ the engine handles
\* ASR._get_model (asr.py 19-22) and TTSEngine._get_tts (tts_engine.py 17-29),
\* called with the handle set or not: the constructor is called (`build`) when
\* the handle is None, and its result is stored in the handle (`set`).
get_model_always(model) == [build |-> TRUE, set |-> TRUE]
get_model(model) == [build |-> ~model, set |-> TRUE]
get_tts(tts) == [build |-> ~tts, set |-> TRUE]

\* ------------------------------------------------------------------ the lock
\* PROCESS_LOCK.locked()
LockedNever == FALSE
Locked == lock # {}

\* `async with PROCESS_LOCK` on entry (asyncio.Lock.acquire): the lock is taken
\* at once when it is free and nobody waits, else the caller queues.
EnterNoLock(m) == [lock |-> lock, waiters |-> waiters, go |-> TRUE]
Enter(m) ==
    IF lock = {} /\ waiters = <<>>
    THEN [lock |-> {m}, waiters |-> waiters, go |-> TRUE]
    ELSE [lock |-> lock, waiters |-> Append(waiters, m), go |-> FALSE]

\* `async with PROCESS_LOCK` on exit (asyncio.Lock.release), on return and on
\* exception alike: the lock is freed and the first waiter, if any, gets it.
ExitLockOnReturnOnly(m, exc) ==
    IF m \notin lock \/ exc THEN [lock |-> lock, waiters |-> waiters, woken |-> {}]
    ELSE [lock |-> lock \ {m}, waiters |-> waiters, woken |-> {}]
ExitLock(m, exc) ==
    IF m \notin lock THEN [lock |-> lock, waiters |-> waiters, woken |-> {}]
    ELSE IF waiters = <<>> THEN [lock |-> lock \ {m}, waiters |-> waiters, woken |-> {}]
    ELSE [lock |-> (lock \ {m}) \cup {Head(waiters)}, waiters |-> Tail(waiters),
          woken |-> {Head(waiters)}]

\* The first statement inside `async with PROCESS_LOCK`: bot.get_file in
\* on_voice, message.answer(jg_text) in on_text.
InsideLock(r) ==
    IF r.kind = "voice"
    THEN [r EXCEPT !.pc = "v_get_file", !.calls = @ \cup {"download"}]
    ELSE [r EXCEPT !.pc = "text_send"]

\* ------------------------------------------------------------------ helpers
NoDone == \A k \in Msgs : h[k].pc # "done"

\* Handler m is suspended at `label` and the event loop can resume it.
At(m, label) == NoDone /\ h[m].pc = label /\ loop \subseteq {m}

\* A new invocation takes the first free record (the records are interchangeable).
Free(m) == At(m, "idle") /\ \A k \in Msgs : k < m => h[k].pc # "idle"

\* Handler m goes on as r.
Goto(m, r) == h' = [h EXCEPT ![m] = r]

\* Handler m ends as r, by return or (exc) by an exception that leaves it.
End(m, r, exc) ==
    LET x == ExitLock(m, exc) IN
    /\ lock' = x.lock
    /\ waiters' = x.waiters
    /\ loop' = Idle
    /\ h' = [k \in Msgs |->
                IF k = m THEN [r EXCEPT !.pc = "done", !.raised = exc,
                                        !.text = <<>>, !.attempt = 0, !.lastExc = "none"]
                ELSE IF k \in x.woken THEN InsideLock(h[k])
                ELSE h[k]]

\* `await message.answer(<one-off answer>); return`, before the locked section
\* ("reply") or inside it ("v_reply").
Reply(m, r, what) ==
    /\ Goto(m, [r EXCEPT !.pc = IF m \in lock THEN "v_reply" ELSE "reply",
                         !.reply = what, !.replyState = "pending"])
    /\ loop' = Idle
    /\ UNCHANGED <<lock, waiters>>

\* The `finally` of on_voice (lines 318-326): unlink ogg_in and wav.
\* The `finally` of _speak_and_send (lines 221-228): unlink the synthesis files.
\* unlink is taken to succeed.
CleanInput(r) ==
    IF r.kind = "voice" THEN [r EXCEPT !.files = @ \ InputFiles] ELSE r
CleanSynth(r) == [r EXCEPT !.files = @ \ SynthFiles]

\* Handler m goes on as r and suspends at an await: the loop is free again.
Await(m, r) ==
    /\ Goto(m, r)
    /\ loop' = Idle
    /\ UNCHANGED <<lock, waiters>>

\* Handler m goes on as r in a long synchronous call: it keeps the loop.
Block(m, r) ==
    /\ Goto(m, r)
    /\ loop' = {m}
    /\ UNCHANGED <<lock, waiters>>

\* An exception at `stage` leaves the handler outside every try block.
Raise(m, r, stage) == End(m, [r EXCEPT !.failed = stage], TRUE)

\* ------------------------------------------------------------------ translate_text in a handler
\* The texts of the handlers name their tokens by how the lookup ends: "known" is
\* a word the direct lookup resolves, "unknown" a word that no lookup resolves,
\* so _lemma is called for the "unknown" tokens, and it consults the oracle when
\* lemmatize_ru is set (translator.py 116-117, 89-93).
Consults(ru_text) ==
    lemmatize_ru /\ \E i \in 1..Len(ru_text) : ru_text[i] = "unknown"

\* MorphAnalyzer() at translator.py 99 is outside both try blocks of _lemma: its
\* exception leaves _lemma and translate_text.
TranslateRaises(ru_text, orc) == Consults(ru_text) /\ ~morph /\ orc = "ctor_fails"

\* The fields of the Dictionary after translate_text: translator.py 84-130
\* assigns none of them but the cached analyzer.
AfterTranslateLearns(d, ru_text) ==
    IF \E i \in 1..Len(ru_text) : ru_text[i] = "unknown"
    THEN [d EXCEPT !.ru_to_jg = [k \in DOMAIN @ \cup {<<"e">>} |->
                                    IF k \in DOMAIN @ THEN @[k] ELSE <<"e">>]]
    ELSE d
AfterTranslate(d, ru_text) == d

\* What a call of translate_text in a handler leaves behind.
Translated(ru_text, orc) ==
    LET d == AfterTranslate(Self, ru_text) IN
    /\ ru_to_jg' = d.ru_to_jg
    /\ policy' = d.fallback_policy
    /\ lemmatize_ru' = d.lemmatize_ru
    /\ morph' = IF Consults(ru_text) /\ orc \notin {"no_module", "ctor_fails"}
                THEN TRUE ELSE morph
    /\ UNCHANGED <<document, saving, op>>

\* ------------------------------------------------------------------ on_voice
\* Lines 240-264: the validation, the admission check and the entry into the
\* locked section, up to the await of bot.get_file.
ArriveVoice(m) ==
    /\ Free(m)
    /\ \E present, spk, short \in BOOLEAN :
        LET r == [InitRec EXCEPT !.kind = "voice"] IN
        IF ~present THEN End(m, r, FALSE)
        ELSE IF ~spk THEN Reply(m, r, "speaker")
        ELSE IF ~short THEN Reply(m, r, "duration")
        ELSE IF Locked THEN Reply(m, r, "busy")
        ELSE LET e == Enter(m) IN
             /\ lock' = e.lock
             /\ waiters' = e.waiters
             /\ loop' = Idle
             /\ Goto(m, IF e.go THEN InsideLock(r) ELSE [r EXCEPT !.pc = "lock_wait"])
    /\ UNCHANGED <<asrModel, ttsModel, policy, tempo, lexvars>>

\* run_ffmpeg_convert up to its await: ensure_ffmpeg_available may raise before
\* the transcoder is started.
FfmpegStart(r, avail, label) ==
    IF avail THEN [r EXCEPT !.pc = label, !.calls = @ \cup {label}]
    ELSE r

\* Line 264: bot.get_file returns or raises.
GetFile(m) ==
    /\ At(m, "v_get_file")
    /\ \E ok \in BOOLEAN :
        IF ok THEN Await(m, [h[m] EXCEPT !.pc = "v_download"])
        ELSE Raise(m, h[m], "download")
    /\ UNCHANGED <<asrModel, ttsModel, policy, tempo, lexvars>>

\* Lines 265-273: bot.download_file returns (ogg_in is written) or raises (ogg_in
\* may be left partly written); then run_ffmpeg_convert is called.
Download(m) ==
    /\ At(m, "v_download")
    /\ \E ok, partial, avail \in BOOLEAN :
        IF ok THEN
            LET r == [h[m] EXCEPT !.files = @ \cup {"ogg_in"}] IN
            IF avail THEN Await(m, FfmpegStart(r, avail, "v_ffmpeg"))
            ELSE Raise(m, r, "transcode_in")
        ELSE Raise(m, [h[m] EXCEPT !.files = IF partial THEN @ \cup {"ogg_in"} ELSE @],
                   "download")
    /\ UNCHANGED <<asrModel, ttsModel, policy, tempo, lexvars>>

\* Lines 269-275: the transcoder ends (wav is written) or fails (wav may be left
\* partly written); then the status message is sent.
TranscodeIn(m) ==
    /\ At(m, "v_ffmpeg")
    /\ \E ok, partial \in BOOLEAN :
        IF ok THEN Await(m, [h[m] EXCEPT !.files = @ \cup {"wav"}, !.pc = "v_status_send"])
        ELSE Raise(m, [h[m] EXCEPT !.files = IF partial THEN @ \cup {"wav"} ELSE @],
                   "transcode_in")
    /\ UNCHANGED <<asrModel, ttsModel, policy, tempo, lexvars>>

\* asr.py line 39: model.transcribe runs in a worker thread (asyncio.to_thread),
\* so the handler is suspended and the loop is free.
AsrOnLoop(m) == {m}
AsrOffload(m) == Idle

\* Lines 275-278 and asr.py 28: the status message is sent; transcribe_ru calls
\* _get_model, which constructs the model on the event loop at first use.
StatusSend(m) ==
    /\ At(m, "v_status_send")
    /\ \E ok \in BOOLEAN :
        IF ok THEN
            LET r == [h[m] EXCEPT !.status = "shown", !.calls = @ \cup {"asr"}] IN
            IF ~get_model(asrModel).build
            THEN /\ Goto(m, [r EXCEPT !.pc = "v_asr_run"])
                 /\ loop' = AsrOffload(m)
                 /\ UNCHANGED <<lock, waiters>>
            ELSE Block(m, [r EXCEPT !.pc = "v_asr_load"])
        ELSE Raise(m, h[m], "send")
    /\ UNCHANGED <<asrModel, ttsModel, policy, tempo, lexvars>>

\* asr.py 19-22: WhisperModel(...) returns or raises, on the event loop.
AsrLoad(m) ==
    /\ At(m, "v_asr_load")
    /\ loop = {m}
    /\ \E ok \in BOOLEAN :
        IF ok THEN /\ asrModel' = get_model(asrModel).set
                   /\ Goto(m, [h[m] EXCEPT !.pc = "v_asr_run"])
                   /\ loop' = AsrOffload(m)
                   /\ UNCHANGED <<lock, waiters>>
        ELSE /\ asrModel' = asrModel
             /\ Raise(m, h[m], "asr")
    /\ UNCHANGED <<ttsModel, policy, tempo, lexvars>>

\* Lines 278-290: the transcription returns a text or raises; an empty or too
\* long text is reported, any other goes to translation.
AsrRun(m) ==
    /\ At(m, "v_asr_run")
    /\ \/ Raise(m, h[m], "asr")
       \/ \E ru_text \in Texts :
            LET r == [h[m] EXCEPT !.text = ru_text] IN
            IF Len(ru_text) = 0 THEN Await(m, [r EXCEPT !.pc = "v_empty_edit"])
            ELSE IF Len(ru_text) > max_text_chars
                 THEN Await(m, [r EXCEPT !.pc = "v_report_delete", !.reply = "long"])
            ELSE Await(m, [r EXCEPT !.pc = "v_progress_edit"])
    /\ UNCHANGED <<asrModel, ttsModel, policy, tempo, lexvars>>

\* Lines 280-281: status.edit_text("nothing recognized"); return.
EmptyEdit(m) ==
    /\ At(m, "v_empty_edit")
    /\ \E ok \in BOOLEAN :
        IF ok THEN End(m, [h[m] EXCEPT !.status = "edited", !.reply = "empty",
                                       !.replyState = "shown"], FALSE)
        ELSE Raise(m, h[m], "send")
    /\ UNCHANGED <<asrModel, ttsModel, policy, tempo, lexvars>>

\* Lines 283-284 and 293-294: status.delete(), then the report is sent.
ReportDelete(m) ==
    /\ At(m, "v_report_delete")
    /\ \E ok \in BOOLEAN :
        IF ok THEN Reply(m, [h[m] EXCEPT !.status = "deleted", !.text = <<>>], h[m].reply)
        ELSE Raise(m, h[m], "send")
    /\ UNCHANGED <<asrModel, ttsModel, policy, tempo, lexvars>>

\* Lines 290-291: status.edit_text("translating"); then translate_text runs on
\* the event loop.
ProgressEdit(m) ==
    /\ At(m, "v_progress_edit")
    /\ \E ok \in BOOLEAN :
        IF ok THEN Block(m, [h[m] EXCEPT !.status = "edited", !.pc = "v_translate"])
        ELSE Raise(m, h[m], "send")
    /\ UNCHANGED <<asrModel, ttsModel, policy, tempo, lexvars>>

\* Lines 291-301: translate_text returns; a translation without a letter is
\* reported, any other enters the try block, which first deletes the status.
VoiceTranslate(m) ==
    /\ At(m, "v_translate")
    /\ loop = {m}
    /\ \E orc \in OracleStates :
        LET jg_text == translate_text(h[m].text, policy)
            r == [h[m] EXCEPT !.text = <<>>] IN
        /\ Translated(h[m].text, orc)
        /\ IF TranslateRaises(h[m].text, orc) THEN Raise(m, h[m], "translate")
           ELSE IF ~HasWord(jg_text)
           THEN Await(m, [r EXCEPT !.pc = "v_report_delete", !.reply = "noword"])
           ELSE Await(m, [r EXCEPT !.pc = "v_status_delete"])
    /\ UNCHANGED <<asrModel, ttsModel, tempo>>

\* Lines 301-302: status.delete() returns, then jg_text is sent; an exception
\* runs the finally of on_voice and leaves the handler.
StatusDelete(m) ==
    /\ At(m, "v_status_delete")
    /\ \E ok \in BOOLEAN :
        IF ok THEN Await(m, [h[m] EXCEPT !.status = "deleted", !.pc = "text_send"])
        ELSE Raise(m, CleanInput(h[m]), "send")
    /\ UNCHANGED <<asrModel, ttsModel, policy, tempo, lexvars>>

\* ------------------------------------------------------------------ _speak_and_send
\* The message `status.delete()` of _speak_and_send (line 191) removes: the one
\* answer("Озвучиваю…") returned (line 159).
SpeakStatusIsText == "textMsg"
SpeakStatus == "ttsStatus"

\* The caller's `except Exception` (lines 312-317, 368-373): the notice is sent.
\* An exception inside the try of _speak_and_send first runs its finally.
SpeakRaise(m, r, stage) ==
    Await(m, [r EXCEPT !.failed = stage, !.pc = "notice_send", !.notice = "pending"])

SpeakFailNoFinally(m, r, stage) == SpeakRaise(m, r, stage)
SpeakFail(m, r, stage) == SpeakRaise(m, CleanSynth(r), stage)

\* _speak_and_send returns: its finally, then for on_voice the finally of the
\* handler, and the handler ends.
SpeakReturn(m, r) == End(m, CleanInput(CleanSynth(r)), FALSE)

\* Lines 302/358 and 156-159: jg_text is sent; _speak_and_send creates out_wav
\* and sends its status message.  A failed send of jg_text leaves the handler
\* (through the finally in on_voice).
TextSend(m) ==
    /\ At(m, "text_send")
    /\ \E ok \in BOOLEAN :
        IF ok THEN Await(m, [h[m] EXCEPT !.textMsg = "shown", !.textSends = @ + 1,
                                         !.files = @ \cup {"out_wav"},
                                         !.pc = "s_status_send"])
        ELSE Raise(m, CleanInput(h[m]), "send")
    /\ UNCHANGED <<asrModel, ttsModel, policy, tempo, lexvars>>

\* tts_engine.py line 45: tts_to_file runs in a worker thread.
TtsOffload(m) == Idle

\* Lines 159-162 and tts_engine.py 35: the status message is sent (a failure here
\* is outside the try, so out_wav stays); synthesize_to_wav calls _get_tts, which
\* constructs the engine on the event loop at first use.
SpeakStatusSend(m) ==
    /\ At(m, "s_status_send")
    /\ \E ok \in BOOLEAN :
        IF ok THEN
            LET r == [h[m] EXCEPT !.ttsStatus = "shown", !.calls = @ \cup {"tts"}] IN
            IF ~get_tts(ttsModel).build
            THEN /\ Goto(m, [r EXCEPT !.pc = "s_tts_run"])
                 /\ loop' = TtsOffload(m)
                 /\ UNCHANGED <<lock, waiters>>
            ELSE Block(m, [r EXCEPT !.pc = "s_tts_load"])
        ELSE SpeakRaise(m, h[m], "send")
    /\ UNCHANGED <<asrModel, ttsModel, policy, tempo, lexvars>>

\* tts_engine.py 17-29: importing TTS.api and TTS(model_name) return or raise, on
\* the event loop.
TtsLoad(m) ==
    /\ At(m, "s_tts_load")
    /\ loop = {m}
    /\ \E ok \in BOOLEAN :
        IF ok THEN /\ ttsModel' = get_tts(ttsModel).set
                   /\ Goto(m, [h[m] EXCEPT !.pc = "s_tts_run"])
                   /\ loop' = TtsOffload(m)
                   /\ UNCHANGED <<lock, waiters>>
        ELSE /\ ttsModel' = ttsModel
             /\ SpeakFail(m, h[m], "synth")
    /\ UNCHANGED <<asrModel, policy, tempo, lexvars>>

\* Lines 162-185: the synthesis returns or raises; then the tempo filter (when
\* configured) or the encoder is started on a fresh temporary file.
TtsRun(m) ==
    /\ At(m, "s_tts_run")
    /\ \E ok, avail \in BOOLEAN :
        IF ~ok THEN SpeakFail(m, h[m], "synth")
        ELSE IF tempo THEN
            LET r == [h[m] EXCEPT !.files = @ \cup {"slowed_wav"}] IN
            IF avail THEN Await(m, FfmpegStart(r, avail, "s_tempo"))
            ELSE SpeakFail(m, r, "tempo")
        ELSE
            LET r == [h[m] EXCEPT !.files = @ \cup {"out_ogg"}] IN
            IF avail THEN Await(m, FfmpegStart(r, avail, "s_encode"))
            ELSE SpeakFail(m, r, "encode")
    /\ UNCHANGED <<asrModel, ttsModel, policy, tempo, lexvars>>

\* Lines 169-185: the tempo filter ends or fails; then the encoder is started.
Tempo(m) ==
    /\ At(m, "s_tempo")
    /\ \E ok, avail \in BOOLEAN :
        IF ~ok THEN SpeakFail(m, h[m], "tempo")
        ELSE LET r == [h[m] EXCEPT !.files = @ \cup {"out_ogg"}] IN
             IF avail THEN Await(m, FfmpegStart(r, avail, "s_encode"))
             ELSE SpeakFail(m, r, "encode")
    /\ UNCHANGED <<asrModel, ttsModel, policy, tempo, lexvars>>

\* Lines 180-191: the encoder ends or fails; then the status message is deleted.
Encode(m) ==
    /\ At(m, "s_encode")
    /\ \E ok \in BOOLEAN :
        IF ok THEN Await(m, [h[m] EXCEPT !.pc = "s_status_delete"])
        ELSE SpeakFail(m, h[m], "encode")
    /\ UNCHANGED <<asrModel, ttsModel, policy, tempo, lexvars>>

\* Lines 191-198: status.delete() returns or raises; then the first voice-note
\* attempt is made.
SpeakStatusDelete(m) ==
    /\ At(m, "s_status_delete")
    /\ \E ok \in BOOLEAN :
        IF ok THEN Await(m, [h[m] EXCEPT ![SpeakStatus] = "deleted", !.attempt = 0,
                                         !.lastExc = "none", !.nVoice = @ + 1,
                                         !.pc = "s_voice"])
        ELSE SpeakFail(m, h[m], "send")
    /\ UNCHANGED <<asrModel, ttsModel, policy, tempo, lexvars>>

\* What a send attempt can end with: success, TelegramNetworkError, or any
\* other exception.
Outcomes == {"ok", "net", "err"}

\* Lines 196-205: one answer_voice attempt ends.  Success breaks the loop and
\* _speak_and_send returns; a TelegramNetworkError is kept and the backoff sleep
\* starts; any other exception leaves _speak_and_send.
Voice(m) ==
    /\ At(m, "s_voice")
    /\ \E out \in Outcomes :
        CASE out = "ok" -> SpeakReturn(m, [h[m] EXCEPT !.lastExc = "none",
                                                      !.nDelivered = @ + 1])
          [] out = "net" -> Await(m, [h[m] EXCEPT !.lastExc = "net", !.netFails = @ + 1,
                                                !.pc = "s_voice_sleep"])
          [] out = "err" -> SpeakFail(m, h[m], "deliver_err")
    /\ UNCHANGED <<asrModel, ttsModel, policy, tempo, lexvars>>

\* Lines 195-211: the backoff sleep ends; the next voice-note attempt is made, or
\* after the last one the first answer_audio attempt (last_exc is set here).
VoiceSleep(m) ==
    /\ At(m, "s_voice_sleep")
    /\ IF h[m].attempt + 1 < VoiceAttempts
       THEN Await(m, [h[m] EXCEPT !.attempt = @ + 1, !.nVoice = @ + 1, !.pc = "s_voice"])
       ELSE Await(m, [h[m] EXCEPT !.attempt = 0, !.nAudio = @ + 1, !.pc = "s_audio"])
    /\ UNCHANGED <<asrModel, ttsModel, policy, tempo, lexvars>>

\* Lines 210-218: one answer_audio attempt ends.
Audio(m) ==
    /\ At(m, "s_audio")
    /\ \E out \in Outcomes :
        CASE out = "ok" -> SpeakReturn(m, [h[m] EXCEPT !.lastExc = "none",
                                                      !.nDelivered = @ + 1])
          [] out = "net" -> Await(m, [h[m] EXCEPT !.lastExc = "net", !.netFails = @ + 1,
                                                !.pc = "s_audio_sleep"])
          [] out = "err" -> SpeakFail(m, h[m], "deliver_err")
    /\ UNCHANGED <<asrModel, ttsModel, policy, tempo, lexvars>>

\* Lines 209-220: the backoff sleep ends; the next answer_audio attempt is made,
\* or after the last one last_exc is raised.
AudioSleep(m) ==
    /\ At(m, "s_audio_sleep")
    /\ IF h[m].attempt + 1 < AudioAttempts
       THEN Await(m, [h[m] EXCEPT !.attempt = @ + 1, !.nAudio = @ + 1, !.pc = "s_audio"])
       ELSE SpeakFail(m, h[m], "deliver_net")
    /\ UNCHANGED <<asrModel, ttsModel, policy, tempo, lexvars>>

\* Lines 314-326 and 370-373: the notice is sent or its send raises; on_voice
\* runs its finally either way, and the handler ends.
NoticeSend(m) ==
    /\ At(m, "notice_send")
    /\ \E ok \in BOOLEAN :
        End(m, CleanInput([h[m] EXCEPT !.notice = IF ok THEN "shown" ELSE "failed"]), ~ok)
    /\ UNCHANGED <<asrModel, ttsModel, policy, tempo, lexvars>>

\* ------------------------------------------------------------------ on_text
\* What message.text can be: no text, a command-like text, or a text to translate.
\* Lines 331-346: the validation; then translate_text runs on the event loop.
ArriveText(m) ==
    /\ Free(m)
    /\ LET r == [InitRec EXCEPT !.kind = "text"] IN
        \/ End(m, r, FALSE)
        \/ \E spk \in BOOLEAN, ru_text \in Texts :
            IF ~spk THEN Reply(m, r, "speaker")
            ELSE IF Len(ru_text) > max_text_chars THEN Reply(m, r, "long")
            ELSE Block(m, [r EXCEPT !.text = ru_text, !.pc = "t_translate"])
    /\ UNCHANGED <<asrModel, ttsModel, policy, tempo, lexvars>>

\* Lines 346-358: translate_text returns; a translation without a letter is
\* reported; then the admission check, and inside the lock jg_text is sent.
TextTranslate(m) ==
    /\ At(m, "t_translate")
    /\ loop = {m}
    /\ \E orc \in OracleStates :
        LET jg_text == translate_text(h[m].text, policy)
            r == [h[m] EXCEPT !.text = <<>>] IN
        /\ Translated(h[m].text, orc)
        /\ IF TranslateRaises(h[m].text, orc) THEN Raise(m, h[m], "translate")
           ELSE IF ~HasWord(jg_text) THEN Reply(m, r, "noword")
           ELSE IF Locked THEN Reply(m, r, "busy_text")
           ELSE LET e == Enter(m) IN
                /\ lock' = e.lock
                /\ waiters' = e.waiters
                /\ loop' = Idle
                /\ Goto(m, IF e.go THEN InsideLock(r) ELSE [r EXCEPT !.pc = "lock_wait"])
    /\ UNCHANGED <<asrModel, ttsModel, tempo>>

\* ------------------------------------------------------------------ the rest
\* Lines 138-144: cmd_help answers with the help text.
ArriveCmd(m) ==
    /\ Free(m)
    /\ loop = Idle
    /\ Reply(m, [InitRec EXCEPT !.kind = "cmd"], "help")
    /\ UNCHANGED <<asrModel, ttsModel, policy, tempo, lexvars>>

\* The one-off answer is sent or its send raises; the handler ends.
FinishReply(m) ==
    /\ (At(m, "reply") \/ At(m, "v_reply"))
    /\ \E ok \in BOOLEAN :
        End(m, [h[m] EXCEPT !.replyState = IF ok THEN "shown" ELSE "failed",
                            !.failed = IF ok THEN @ ELSE "send"], ~ok)
    /\ UNCHANGED <<asrModel, ttsModel, policy, tempo, lexvars>>

\* Lines 126-127: the health endpoint answers a probe; it runs on the event
\* loop, so only when no handler occupies it.
CanServe == loop = Idle

\* The answer touches no state of the pipeline.
Health ==
    /\ NoDone
    /\ CanServe
    /\ UNCHANGED vars

\* The dispatcher drops the ended invocation; its record is forgotten.
Reset(m) ==
    /\ h[m].pc = "done"
    /\ h' = [h EXCEPT ![m] = InitRec]
    /\ UNCHANGED <<lock, waiters, loop, asrModel, ttsModel, policy, tempo, lexvars>>

Next ==
    \/ Health
    \/ \E m \in Msgs :
        \/ ArriveVoice(m) \/ ArriveText(m) \/ ArriveCmd(m) \/ FinishReply(m)
        \/ GetFile(m) \/ Download(m) \/ TranscodeIn(m) \/ StatusSend(m)
        \/ AsrLoad(m) \/ AsrRun(m) \/ EmptyEdit(m) \/ ReportDelete(m)
        \/ ProgressEdit(m) \/ VoiceTranslate(m) \/ StatusDelete(m)
        \/ TextTranslate(m) \/ TextSend(m)
        \/ SpeakStatusSend(m) \/ TtsLoad(m) \/ TtsRun(m) \/ Tempo(m) \/ Encode(m)
        \/ SpeakStatusDelete(m) \/ Voice(m) \/ VoiceSleep(m) \/ Audio(m)
        \/ AudioSleep(m) \/ NoticeSend(m) \/ Reset(m)

Spec == Init /\ [][Next]_vars

\* ------------------------------------------------------------------ translate_text alone
\* Longest source text, in characters.
MaxChars == 3
\* The characters of a source text: a small and a capital letter, the letter
\* that is folded, and whitespace.
TextChars == {"a", "A", "yo", " "}
CharTexts == UNION {[1..n -> TextChars] : n \in 0..MaxChars}

\* A Dictionary loaded from any document; no message is in the pipeline.
TranslateInit ==
    /\ Quiet
    /\ tempo = FALSE
    /\ \E doc \in Documents : Loaded(doc)

\* dictionary.translate_text(ru_text) with the oracle in state orc
\* (translator.py 109-130); op keeps the call and what it returned.  With
\* lemmatize_ru off _lemma returns at line 90 and the oracle plays no part, so
\* one oracle state stands for all.
Translate(ru_text, orc) ==
    LET d == AfterTranslate(Self, ru_text)
        r == Dictionary_translate_text(Self, orc, morph, ru_text) IN
    /\ op = NoOp
    /\ lemmatize_ru \/ orc = "no_module"
    /\ op' = r
    /\ morph' = r.morph
    /\ ru_to_jg' = d.ru_to_jg
    /\ policy' = d.fallback_policy
    /\ lemmatize_ru' = d.lemmatize_ru
    /\ UNCHANGED <<botvars, document, saving>>

\* The caller has taken the result of the last call; the object stays as the
\* call left it.
Return ==
    /\ op # NoOp
    /\ ~saving
    /\ op' = NoOp
    /\ UNCHANGED <<botvars, policy, ru_to_jg, lemmatize_ru, morph, document, saving>>

TranslateNext ==
    \/ \E ru_text \in CharTexts, orc \in OracleStates : Translate(ru_text, orc)
    \/ Return

TranslateSpec == TranslateInit /\ [][TranslateNext]_vars

\* ------------------------------------------------------------------ load, add, save
\* The payload of Dictionary.save (translator.py 63-71): the whole object.
payload(d) == Document(d.ru_to_jg, d.fallback_policy, d.lemmatize_ru)

\* Dictionary.add up to its call of save (translator.py 75-81): a ValueError for
\* a word that is empty after stripping, else the entry is set.
add(d, ru_word, jg_word) ==
    LET ru_key == norm_ru(strip(ru_word))
        jg_val == strip(jg_word) IN
    IF ru_key = <<>> \/ jg_val = <<>> THEN [raised |-> TRUE, ru_to_jg |-> d.ru_to_jg]
    ELSE [raised |-> FALSE,
          ru_to_jg |-> [k \in DOMAIN d.ru_to_jg \cup {ru_key} |->
                           IF k = ru_key THEN jg_val ELSE d.ru_to_jg[k]]]

\* The words add is called with.
AddSources == {<<>>, <<" ">>, <<"a">>, <<" ", "YO">>}
AddTargets == {<<>>, <<" ">>, <<"u", " ">>, <<"g", "U", "u">>}

\* A Dictionary loaded from any document, or from no document at all.
LexiconInit ==
    /\ Quiet
    /\ tempo = FALSE
    /\ \E doc \in Documents \cup {Unreadable("absent")} : Loaded(doc)

\* dictionary.add(ru_word, jg_word), translator.py 74-82, up to the moment
\* write_text (line 72) has opened the document for writing, which truncates it;
\* open() itself can fail and then leaves the document as it was.
Add(ru_word, jg_word) ==
    /\ op = NoOp
    /\ ~saving
    /\ LET a == add(Self, ru_word, jg_word) IN
        /\ ru_to_jg' = a.ru_to_jg
        /\ IF a.raised
           THEN /\ op' = [name |-> "add", raised |-> TRUE, stage |-> "rejected"]
                /\ UNCHANGED <<document, saving>>
           ELSE \E opened \in BOOLEAN :
                IF opened
                THEN /\ document' = Unreadable("empty")
                     /\ saving' = TRUE
                     /\ op' = [name |-> "add", raised |-> FALSE, stage |-> "writing"]
                ELSE /\ op' = [name |-> "add", raised |-> TRUE, stage |-> "open"]
                     /\ UNCHANGED <<document, saving>>
    /\ UNCHANGED <<botvars, policy, lemmatize_ru, morph>>

\* write_text goes on (translator.py 72): a first part of the payload reaches
\* the file, or all of it does and the file is closed, or the write ends with an
\* error (or the process dies) and the file stays as far as it was written.
SaveWrite ==
    /\ saving
    /\ \E outcome \in {"part", "all", "error"} :
        /\ document' = CASE outcome = "part" -> Unreadable("partial")
                         [] outcome = "all" -> payload(Self)
                         [] OTHER -> document
        /\ saving' = (outcome = "part")
        /\ op' = [name |-> "add", raised |-> (outcome = "error"),
                  stage |-> IF outcome = "all" THEN "saved" ELSE "writing"]
    /\ UNCHANGED <<botvars, policy, ru_to_jg, lemmatize_ru, morph>>

\* Dictionary.load(path) by any reader of the document (translator.py 51-60, as
\* bot.py 385 and translate_file.py 37 call it), at any moment.
Load ==
    /\ op.name # "load"
    /\ op' = [name |-> "load", seen |-> document.state, raised |-> load(document).raised,
              ru_to_jg |-> load(document).ru_to_jg]
    /\ UNCHANGED <<botvars, policy, ru_to_jg, lemmatize_ru, morph, document, saving>>

LexiconNext ==
    \/ \E ru_word \in AddSources, jg_word \in AddTargets : Add(ru_word, jg_word)
    \/ SaveWrite
    \/ Load
    \/ Return

LexiconSpec == LexiconInit /\ [][LexiconNext]_vars

\* ------------------------------------------------------------------ generate_jg
\* The pools of generate_jg (jg_generator.py 33-35, 51-57); each Cyrillic letter
\* is written as one character in Latin transcription.
consonants == <<"g", "k", "p", "b", "d", "m", "n", "l", "zh", "ch", "t", "z", "r", "s">>
vowels == <<"a", "o", "u", "ya", "yo", "i", "eh", "yu", "e">>
mid ==
    << <<"g", "l">>, <<"l", "yu">>, <<"n", "o">>, <<"p", "a">>, <<"g", "u">>,
       <<"zh", "o">>, <<"n", "i">>, <<"l", "ya">>, <<"m", "o">>, <<"b", "o">>,
       <<"d", "o">>, <<"t", "i">>, <<"p", "o">>, <<"ch", "o">>, <<"m", "a">> >>
verb_endings ==
    << <<"i", "t", "soft">>, <<"n", "i", "t", "soft">>, <<"o", "zh", "i", "t", "soft">>,
       <<"a", "t", "hard">> >>
adj_endings == << <<"a", "t", "i">>, <<"i", "j">>, <<"i", "n", "o">>, <<"y", "j">> >>
other_endings ==
    << <<"a">>, <<"ya">>, <<"o", "n", "i">>, <<"k", "a">>, <<"t", "i">>, <<"n", "ya">> >>

\* _h (jg_generator.py 14-15): the 32 bytes of the digest of a word.  SHA-256 is
\* a function of the word alone; a small mixing function stands for it here.
RECURSIVE Mix(_)
Mix(w) ==
    IF w = <<>> THEN 177
    ELSE (Mix(SubSeq(w, 1, Len(w) - 1)) * 33
          + (CASE w[Len(w)] = "a" -> 1 [] w[Len(w)] = "e" -> 2 [] OTHER -> 3)) % 256
digest(w) == [k \in 0..31 |-> (Mix(w) * (2 * k + 1) + 89 * k) % 256]

\* generate_jg (jg_generator.py 18-66).  The result tells whether ValueError was
\* raised, and else the candidate returned.
RECURSIVE syllables(_, _, _)
syllables(d, i, syl_n) ==
    IF i >= syl_n THEN <<>>
    ELSE LET c == consonants[(d[1 + i] % Len(consonants)) + 1]
             v == vowels[(d[8 + i] % Len(vowels)) + 1]
             chunk == IF d[16 + i] % 4 = 0 THEN mid[(d[24 + i] % Len(mid)) + 1]
                      ELSE <<c, v>>
         IN  chunk \o syllables(d, i + 1, syl_n)

\* The candidate before the check against reserved (lines 38-59).
candidate(w, kind) ==
    LET d == digest(w)
        syl_n == 2 + (d[0] % 3)
        stem == syllables(d, 0, syl_n)
        ending ==
            IF kind = "verb"
            THEN LET e == verb_endings[(d[31] % 4) + 1] IN
                 IF e = <<"a", "t", "hard">> THEN <<"a", "t", "soft">> ELSE e
            ELSE IF kind = "adj" THEN adj_endings[(d[30] % 4) + 1]
            ELSE other_endings[(d[29] % 6) + 1]
    IN  stem \o ending

generate_jg(word_ru, reserved, kind) ==
    LET w == norm_ru(strip(word_ru))
        c0 == candidate(w, kind)
        c1 == c0 \o <<"ya">>
        c2 == c1 \o <<"n", "i">> IN
    IF w = <<>> THEN [raised |-> TRUE, out |-> <<>>]
    ELSE [raised |-> FALSE,
          out |-> IF c0 \notin reserved THEN c0
                  ELSE IF c1 \notin reserved THEN c1
                  ELSE c2]

\* The calls of generate_jg: the word, the kind hint, and a reserved set drawn
\* from the forms the word can get and one foreign form.
GenWords == {<<>>, <<"a">>, <<"e">>, <<" ", "YO">>, <<"a", "e">>}
Kinds == {"verb", "adj", "noun", "none"}
Forms(word_ru, kind) ==
    LET c0 == candidate(norm_ru(strip(word_ru)), kind) IN
    {c0, c0 \o <<"ya">>, c0 \o <<"ya", "n", "i">>, <<"g", "U", "u">>}

Generate(word_ru, reserved, kind) ==
    /\ op = NoOp
    /\ LET g == generate_jg(word_ru, reserved, kind) IN
        op' = [name |-> "generate", word |-> word_ru, kind |-> kind,
               reserved |-> reserved, raised |-> g.raised, out |-> g.out]
    /\ UNCHANGED <<botvars, policy, ru_to_jg, lemmatize_ru, morph, document, saving>>

\* ------------------------------------------------------------------ build_dictionary
\* The seed document (build_dictionary.py 64-66, 153): its pairs, and its
\* fallback_policy and lemmatize_ru keys, each of which may be missing ("none").
SeedMappings ==
    {NoMapping,
     [k \in {<<"a">>} |-> <<"g", "U", "u">>],
     [k \in {<<"e">>} |-> candidate(<<"a">>, "noun")]}
Seeds ==
    [ru_to_jg : SeedMappings, fallback_policy : Policies \cup {"none"},
     lemmatize_ru : {"true", "false", "none"}]

\* Lines 66-69: the policy written to the output document.
build_policy_declared(declared) ==
    IF declared = "none" THEN "keep_original" ELSE declared
build_policy(declared) ==
    LET fallback_policy == IF declared = "none" THEN "keep_original" ELSE declared IN
    IF fallback_policy = "keep_original" THEN "drop_unknown" ELSE fallback_policy

\* Lines 108-134: the candidates.  `words` are the (lemma, kind) pairs that
\* _norm_ru, is_ru_word and _lemma_and_kind make of the ensured lemmas (limited =
\* FALSE) or of the frequency list (limited = TRUE, the loop with the break); a
\* lemma already seen or already in the seed is skipped.
RECURSIVE collect(_, _, _, _, _)
collect(words, cands, map, n, limited) ==
    IF words = <<>> THEN cands
    ELSE LET x == Head(words) IN
         IF (\E i \in 1..Len(cands) : cands[i].lemma = x.lemma) \/ x.lemma \in DOMAIN map
         THEN collect(Tail(words), cands, map, n, limited)
         ELSE IF limited /\ Cardinality(DOMAIN map) + Len(cands) + 1 >= n
         THEN Append(cands, x)
         ELSE collect(Tail(words), Append(cands, x), map, n, limited)

\* Lines 137-141: the generated pairs, up to the target size.
RECURSIVE fill(_, _, _, _)
fill(cands, map, reserved, n) ==
    IF cands = <<>> \/ Cardinality(DOMAIN map) >= n THEN map
    ELSE LET x == Head(cands)
             jg == generate_jg(x.lemma, reserved, x.kind).out
         IN  fill(Tail(cands),
                  [k \in DOMAIN map \cup {x.lemma} |-> IF k = x.lemma THEN jg ELSE map[k]],
                  reserved \cup {jg}, n)

\* main of build_dictionary.py (lines 53-158) on a seed, a target size and the
\* two word lists; wordfreq may be missing, which ends the tool (lines 75-84).
build(seed, n, ensured, frequent, wordfreq) ==
    LET reserved == {seed.ru_to_jg[k] : k \in DOMAIN seed.ru_to_jg}
        candidates == collect(frequent, collect(ensured, <<>>, seed.ru_to_jg, n, FALSE),
                              seed.ru_to_jg, n, TRUE)
        map == fill(candidates, seed.ru_to_jg, reserved, n)
    IN  [raised |-> ~wordfreq,
         out |-> Document(map, build_policy(seed.fallback_policy),
                          seed.lemmatize_ru # "false")]

Sizes == {1, 3}
WordA == [lemma |-> <<"a">>, kind |-> "noun"]
WordE == [lemma |-> <<"e">>, kind |-> "verb"]
EnsuredLists == {<<>>, <<WordA>>}
FrequencyLists == {<<>>, <<WordE>>, <<WordA, WordE>>, <<WordE, WordA>>}

\* One run of the tool; the output document is written when the tool did not
\* end early (lines 156-157).
Build(seed, n, ensured, frequent, wordfreq) ==
    /\ op = NoOp
    /\ LET b == build(seed, n, ensured, frequent, wordfreq) IN
        /\ op' = [name |-> "build", seed |-> seed, raised |-> b.raised,
                  out |-> IF b.raised THEN Unreadable("absent") ELSE b.out]
        /\ document' = IF b.raised THEN document ELSE b.out
    /\ UNCHANGED <<botvars, policy, ru_to_jg, lemmatize_ru, morph, saving>>

\* No dictionary exists yet: the tools make one.
ToolInit ==
    /\ Quiet
    /\ tempo = FALSE
    /\ Loaded(Unreadable("absent"))

ToolNext ==
    \/ \E word_ru \in GenWords, kind \in Kinds :
        \E reserved \in SUBSET Forms(word_ru, kind) : Generate(word_ru, reserved, kind)
    \/ \E seed \in Seeds, n \in Sizes, ensured \in EnsuredLists,
          frequent \in FrequencyLists, wordfreq \in BOOLEAN :
        Build(seed, n, ensured, frequent, wordfreq)
    \/ Return

ToolSpec == ToolInit /\ [][ToolNext]_vars

\* ------------------------------------------------------------------ properties
\* The positions inside `async with PROCESS_LOCK` (bot.py 262-326, 357-373).
SectionPcs ==
    {"v_get_file", "v_download", "v_ffmpeg", "v_status_send", "v_asr_load", "v_asr_run",
     "v_empty_edit", "v_report_delete", "v_progress_edit", "v_translate",
     "v_status_delete", "v_reply", "text_send", "s_status_send", "s_tts_load",
     "s_tts_run", "s_tempo", "s_encode", "s_status_delete", "s_voice", "s_voice_sleep",
     "s_audio", "s_audio_sleep", "notice_send"}

InSection(m) == h[m].pc \in SectionPcs

\* Handler m is inside transcribe_ru or synthesize_to_wav.
InEngine(m) == StageOf(h[m].pc) \in {"asr", "synth"}

Ended(m) == h[m].pc = "done"

BusyReplies == {"busy", "busy_text"}

\* C1: at most one handler is inside the PROCESS_LOCK-guarded section at a time,
\* so the ASR or TTS call of one message never overlaps the ASR or TTS call of
\* another message.
C1_MutualExclusion ==
    /\ Cardinality(lock) <= 1
    /\ \A a, b \in Msgs :
        a # b => /\ ~(InSection(a) /\ InSection(b))
                 /\ ~(InEngine(a) /\ InEngine(b))

\* Contention: one handler is inside an engine call while another message has
\* arrived and is being turned away.
C1_Witness ==
    \E a, b \in Msgs :
        /\ InEngine(a)
        /\ lock = {a}
        /\ h[b].pc = "reply"
        /\ h[b].reply \in BusyReplies

\* C2: a voice or text message that reaches the admission check while the slot
\* is held gets the busy answer and ends; it never waits for the slot and it
\* invokes neither the download, the transcoder, the ASR engine nor the TTS
\* engine.  (A message that fails validation is answered before the check.)
C2_Admission ==
    \A m \in Msgs :
        /\ lock # {} /\ h[m].pc = "idle" /\ h'[m].kind = "voice"
           /\ h'[m].pc # "done" /\ h'[m].reply \notin {"speaker", "duration"}
           => h'[m].pc = "reply" /\ h'[m].reply = "busy"
        /\ lock # {} /\ h[m].pc = "t_translate" /\ h'[m].pc \notin {"t_translate", "done"}
           /\ h'[m].reply # "noword"
           => h'[m].pc = "reply" /\ h'[m].reply = "busy_text"
        /\ h'[m].pc # "lock_wait"
        /\ waiters' = <<>>
        /\ h'[m].reply \in BusyReplies
           => /\ h'[m].pc \in {"reply", "done"}
              /\ h'[m].calls = {}
              /\ h'[m].files = {}

\* C2: every step keeps the admission rule: a message that meets the held slot is
\* answered "busy", never queued, and invokes no collaborator.
C2_BusyRejected == [][C2_Admission]_vars

\* A voice message met the held slot and is being answered "busy".
C2_Witness ==
    \E a, b \in Msgs :
        /\ InSection(a)
        /\ h[b].pc = "reply"
        /\ h[b].reply = "busy"
        /\ h[b].kind = "voice"

\* C3: when a handler has ended, by whatever path, none of the temporary files
\* it created still exists.
C3_NoTempFileLeft ==
    \A m \in Msgs : Ended(m) => h[m].files = {}

\* C4: at most 3 voice-note attempts; the generic-audio fallback only after all 3
\* voice-note attempts failed with a transient network error, and at most 2
\* attempts; delivery stops at the first success, so a message causes at most 5
\* attempts and at most 1 delivery.
C4_DeliveryAttempts ==
    \A m \in Msgs :
        /\ h[m].nVoice <= 3
        /\ h[m].nAudio <= 2
        /\ h[m].nVoice + h[m].nAudio <= 5
        /\ h[m].nDelivered <= 1
        /\ h[m].nAudio > 0 => h[m].nVoice = 3 /\ h[m].netFails >= 3
        /\ h[m].nDelivered = 1 => Ended(m)
        /\ h[m].pc \in {"s_voice", "s_audio"}
           => h[m].netFails = h[m].nVoice + h[m].nAudio - 1

\* The fifth attempt delivers: three voice-note and one generic-audio attempt
\* failed before it.
C4_Witness ==
    \E m \in Msgs :
        /\ h[m].nVoice = 3
        /\ h[m].nAudio = 2
        /\ h[m].netFails = 4
        /\ h[m].nDelivered = 1

\* C5: when all 3 voice-note and both generic-audio attempts fail with a
\* transient network error, the handler sends the "translation ready, audio not
\* delivered" notice (shown unless that send itself raises); the translated text
\* was sent exactly once, before synthesis started, and is neither deleted nor
\* edited.
C5_NoticeKeepsText ==
    \A m \in Msgs :
        /\ h[m].failed = "deliver_net"
           => /\ h[m].netFails = 5
              /\ h[m].pc \in {"notice_send", "done"}
              /\ h[m].notice # "none"
              /\ Ended(m) => h[m].notice = IF h[m].raised THEN "failed" ELSE "shown"
              /\ h[m].textSends = 1
              /\ h[m].textMsg = "shown"
        /\ "tts" \in h[m].calls => h[m].textSends = 1 /\ h[m].textMsg = "shown"
        /\ h[m].textSends <= 1

C5_Witness ==
    \E m \in Msgs :
        /\ Ended(m)
        /\ h[m].failed = "deliver_net"
        /\ h[m].nVoice = 3
        /\ h[m].nAudio = 2
        /\ h[m].notice = "shown"

\* C6: a handler that acquired the slot releases it when it ends, by return or
\* by an exception of any stage; when no handler is running the slot is free,
\* and a message that then passes validation is admitted.
C6_Held ==
    /\ \A m \in lock : InSection(m)
    /\ (\A m \in Msgs : h[m].pc \in {"idle", "done"}) => lock = {}

C6_Admit ==
    \A m \in Msgs :
        /\ lock = {} /\ h[m].pc = "idle" /\ h'[m].kind = "voice"
           /\ h'[m].pc \notin {"done", "reply"}
           => lock' = {m} /\ h'[m].pc = "v_get_file"
        /\ lock = {} /\ h[m].pc = "t_translate"
           /\ h'[m].pc \notin {"t_translate", "reply", "done"}
           => lock' = {m} /\ h'[m].pc = "text_send"

\* C6: the slot is held only by a handler inside the locked section, in every
\* state, and a free slot admits the next valid message, in every step.
C6_SlotReleased == [](C6_Held) /\ [][C6_Admit]_vars

\* A handler was thrown out of the locked section by an exception of the ASR
\* engine, and the slot is free.
C6_Witness ==
    \E m \in Msgs :
        /\ Ended(m)
        /\ h[m].raised
        /\ h[m].failed = "asr"
        /\ lock = {}

\* C7: after a fatal stage failure (the transcoder fails on the inbound audio,
\* or the synthesis, the tempo adjustment or the encoding fails) the handler
\* sends the user a failure message before it ends.
FatalStages == {"transcode_in", "synth", "tempo", "encode"}

\* C7: an ended handler whose pipeline failed in a fatal stage has sent the
\* failure message.
C7_FailureReported ==
    \A m \in Msgs :
        Ended(m) /\ h[m].failed \in FatalStages => h[m].notice # "none"

\* C8: if the transcription is empty or longer than max_text_chars, or the
\* translation holds no letter, the handler goes on to report that outcome (the
\* report is shown unless a messaging call raises) and ends without sending the
\* translated text and without invoking the synthesis engine, the output
\* transcoder or any audio delivery attempt.  (There is a translation when
\* translate_text has returned one.)
Reports == {"empty", "long", "noword"}

NoLetter(jg_text) == \A i \in DOMAIN jg_text : jg_text[i] \in {"punct", ""}

C8_Stops ==
    \A m \in Msgs :
        h[m].reply \in Reports
        => /\ h[m].pc \in {"v_report_delete", "reply", "v_reply", "done"}
           /\ h[m].textSends = 0
           /\ h[m].textMsg = "none"
           /\ h[m].calls \cap {"tts", "s_tempo", "s_encode"} = {}
           /\ h[m].files \cap SynthFiles = {}
           /\ h[m].nVoice = 0 /\ h[m].nAudio = 0 /\ h[m].nDelivered = 0
           /\ Ended(m) => h[m].replyState = "shown" \/ h[m].raised

C8_Trigger ==
    \A m \in Msgs :
        /\ h[m].pc = "v_asr_run" /\ h'[m].pc \notin {"v_asr_run", "done"}
           /\ Len(h'[m].text) = 0
           => h'[m].pc = "v_empty_edit"
        /\ h[m].pc = "v_empty_edit" /\ h'[m].pc # "v_empty_edit" /\ ~h'[m].raised
           => h'[m].reply = "empty" /\ Ended(m)'
        /\ h[m].pc = "v_asr_run" /\ h'[m].pc \notin {"v_asr_run", "done"}
           /\ Len(h'[m].text) > max_text_chars
           => h'[m].pc = "v_report_delete" /\ h'[m].reply = "long"
        /\ h[m].pc \in {"v_translate", "t_translate"} /\ h'[m].pc \notin {h[m].pc, "done"}
           /\ NoLetter(translate_text(h[m].text, policy))
           => h'[m].pc \in {"v_report_delete", "reply"} /\ h'[m].reply = "noword"

\* C8: a reported outcome stops the pipeline before the translated text, the
\* synthesis and the delivery, and each of the three outcomes leads to its report.
C8_ReportedNotSpoken == [](C8_Stops) /\ [][C8_Trigger]_vars

\* A voice message whose translation holds no letter has been answered with
\* the report and has ended.
C8_Witness ==
    \E m \in Msgs :
        /\ Ended(m)
        /\ h[m].kind = "voice"
        /\ h[m].reply = "noword"
        /\ h[m].replyState = "shown"
        /\ "asr" \in h[m].calls

\* C9 as claimed: at most one message is in its transcription, translation or
\* synthesis stage at any time; the translation stage of a message never runs
\* while a different message holds the slot.
InChain(m) == StageOf(h[m].pc) \in {"asr", "translate", "synth"}

Translating(m) == StageOf(h[m].pc) = "translate"

\* C9 as claimed, with translation counted among the serialized stages.
C9_OneInChain ==
    /\ \A a, b \in Msgs : a # b => ~(InChain(a) /\ InChain(b))
    /\ \A m \in Msgs : Translating(m) => lock \subseteq {m}

\* C9 as amended: at most one message is in its transcription or synthesis
\* stage at any time, each only while holding the slot; the translation stage of
\* a voice message runs only while that message holds the slot; two
\* translations never run at once.  (The translation of a text message runs
\* before the admission check.)
C9_OneInEngine ==
    /\ \A a, b \in Msgs :
        a # b => /\ ~(InEngine(a) /\ InEngine(b))
                 /\ ~(Translating(a) /\ Translating(b))
    /\ \A m \in Msgs :
        /\ InEngine(m) => lock = {m}
        /\ h[m].pc = "v_translate" => lock = {m}

\* A text message is being translated while a voice message holds the slot and
\* is inside transcribe_ru.
C9_Witness ==
    \E a, b \in Msgs :
        /\ h[a].pc = "v_asr_run"
        /\ lock = {a}
        /\ h[b].pc = "t_translate"

\* C10: no stage of a pipeline that holds the slot occupies the event loop for
\* its whole duration: a stage (input transcoding, ASR with the model load,
\* synthesis with the model load, tempo adjustment and encoding, delivery with
\* its backoff waits) completes only from a state in which the loop is free, so
\* that the health endpoint and cmd_help can be served before it completes.
C10_Yields ==
    \A m \in Msgs :
        /\ StageOf(h[m].pc) \in HeavyStages
        /\ StageOf(h'[m].pc) # StageOf(h[m].pc)
        /\ h'[m].failed = "none"
        => CanServe /\ NoDone /\ lock = {m}

Unresolved(i) ==
    /\ IsWord(op.tokens[i])
    /\ norm_ru(op.tokens[i]) \notin DOMAIN ru_to_jg
    /\ op.keys[i] \notin DOMAIN ru_to_jg

\* C11: for every letter-run token that no lookup resolves, translate_text emits
\* the empty string under drop_unknown, the token between the bracket pair under
\* mark_unknown and the token itself under keep_original; every non-letter run
\* is emitted unchanged before cleanup.
C11_FallbackPolicy ==
    op.name = "translate" =>
        \A i \in 1..Len(op.parts) :
            /\ Unresolved(i) /\ policy = "drop_unknown" => op.parts[i] = <<>>
            /\ Unresolved(i) /\ policy = "mark_unknown"
               => op.parts[i] = <<"[[">> \o op.tokens[i] \o <<"]]">>
            /\ Unresolved(i) /\ policy = "keep_original" => op.parts[i] = op.tokens[i]
            /\ ~IsWord(op.tokens[i]) => op.parts[i] = op.tokens[i]

\* Under mark_unknown a text of an unresolved word, a non-letter run and a
\* resolved word was translated.
C11_Witness ==
    /\ op.name = "translate"
    /\ policy = "mark_unknown"
    /\ Len(op.parts) = 3
    /\ Unresolved(1)
    /\ op.parts[1] = <<"[[", "yo", "]]">>
    /\ op.parts[2] = <<" ">>
    /\ op.keys[3] \in DOMAIN ru_to_jg

\* Token i of the last translate_text call was resolved to a non-empty target.
Resolved(i) ==
    /\ IsWord(op.tokens[i])
    /\ op.keys[i] \in DOMAIN ru_to_jg
    /\ ru_to_jg[op.keys[i]] # <<>>

AllCapitals(tok) == \A j \in 1..Len(tok) : tok[j] \in UpperLetters
Capitalized(tok) ==
    /\ Len(tok) > 1
    /\ tok[1] \in UpperLetters
    /\ \A j \in 2..Len(tok) : tok[j] \in LowerLetters

\* C12: for every token resolved to a non-empty target, the emitted word is the
\* target in capitals when the token is all capitals, the target with its first
\* letter made a capital and the rest as it is when the token is a capital
\* followed by small letters, and the target as it is in every other case.
C12_CasingRule ==
    op.name = "translate" =>
        \A i \in 1..Len(op.parts) :
            Resolved(i) =>
                LET tok == op.tokens[i]
                    target == ru_to_jg[op.keys[i]] IN
                /\ AllCapitals(tok)
                   => op.parts[i] = [j \in 1..Len(target) |-> Upper(target[j])]
                /\ Capitalized(tok)
                   => op.parts[i] = [j \in 1..Len(target) |->
                                        IF j = 1 THEN Upper(target[j]) ELSE target[j]]
                /\ ~AllCapitals(tok) /\ ~Capitalized(tok) => op.parts[i] = target

\* A capitalized token was resolved through its lemma and emitted as "GUu".
C12_Witness ==
    /\ op.name = "translate"
    /\ op.tokens = <<<<"A", "a">>>>
    /\ Resolved(1)
    /\ op.parts = <<<<"G", "U", "u">>>>

\* The oracle is missing or fails at one of its steps during the last
\* translate_text call (the analyzer is constructed when none is cached).
OracleFails ==
    \/ op.oracle \in {"no_module", "parse_fails", "no_parses"}
    \/ op.oracle = "ctor_fails" /\ ~op.cached

\* C13: translate_text consults the lemma only for a token whose direct lookup
\* misses and only when lemmatization is enabled; when the oracle is missing or
\* fails at any step the normalized form is the lookup key, and no exception
\* leaves translate_text.
C13_LemmaDegrades ==
    op.name = "translate" =>
        /\ ~op.raised
        /\ \A i \in 1..Len(op.keys) :
            /\ op.asked[i] => lemmatize_ru /\ norm_ru(op.tokens[i]) \notin DOMAIN ru_to_jg
            /\ OracleFails => op.keys[i] = norm_ru(op.tokens[i])

\* ------------------------------------------------------------------ C14 - C15
\* C14: a load at any point relative to a save (while the save is in progress,
\* or after a save that a crash or a write error interrupted) finds the whole
\* previous document or the whole new one, never an empty or truncated one.
C14_SaveAtomic ==
    op.name = "load" => op.seen \notin {"empty", "partial"} /\ ~op.raised

\* C15: in every Dictionary reached by a load of any document and any sequence
\* of add calls, accepted or rejected, every value of ru_to_jg is non-empty after
\* trimming.
C15_ValuesNonEmpty ==
    \A k \in DOMAIN ru_to_jg : strip(ru_to_jg[k]) # <<>>

\* ------------------------------------------------------------------ C16
\* C16: translate_text leaves the mapping, the fallback policy, the lemmatize
\* flag and the lexicon document as they are, whatever the text, and no step of
\* on_voice or on_text calls add or save: no step of the pipeline changes the
\* Dictionary fields or the document, opens the document for writing, or records
\* a call of an operation that writes.
C16_LexiconFrame ==
    [][ /\ ru_to_jg' = ru_to_jg
        /\ policy' = policy
        /\ lemmatize_ru' = lemmatize_ru
        /\ document' = document
        /\ saving' = saving
        /\ op'.name \notin {"add", "save"} ]_vars

\* A handler has translated a text with a word that made _lemma consult the
\* oracle (the analyzer is cached since), and the Dictionary is still the one
\* loaded from the document.
C16_Witness ==
    \E m \in Msgs :
        /\ h[m].pc \in {"v_status_delete", "text_send"}
        /\ morph
        /\ document.state = "complete"
        /\ ru_to_jg = document.ru_to_jg
        /\ policy = document.fallback_policy
        /\ lemmatize_ru = document.lemmatize_ru

\* ------------------------------------------------------------------ C19
\* C19: a send attempt that ends with an error other than a transient network
\* error ends the delivery at once.
C19_Ends ==
    \A m \in Msgs :
        h[m].failed = "deliver_err"
        => /\ h[m].pc \in {"notice_send", "done"}
           /\ h[m].files \cap SynthFiles = {}
           /\ h[m].nDelivered = 0
           /\ h[m].notice # "none"
           /\ Ended(m) => h[m].notice = "shown" \/ h[m].raised

C19_NoMoreAttempts ==
    \A m \in Msgs :
        h'[m].failed = "deliver_err"
        => /\ h'[m].nVoice = h[m].nVoice
           /\ h'[m].nAudio = h[m].nAudio
           /\ h'[m].netFails = h[m].netFails
           /\ h'[m].pc \notin {"s_voice", "s_voice_sleep", "s_audio", "s_audio_sleep"}
           /\ h[m].pc = "s_voice" => h'[m].nAudio = 0

\* C19: after a voice-note or generic-audio attempt failed with an error that is
\* not a transient network error, no further attempt, no backoff wait and no
\* switch to the generic-audio fallback happen, the synthesis files are removed,
\* and the handler sends the "translation ready, audio not delivered" notice
\* (shown unless that send raises).
C19_PermanentErrorEnds == [](C19_Ends) /\ [][C19_NoMoreAttempts]_vars

\* The second voice-note attempt ended with a permanent error after one
\* transient failure; the notice was shown and no generic-audio attempt was made.
C19_Witness ==
    \E m \in Msgs :
        /\ Ended(m)
        /\ h[m].failed = "deliver_err"
        /\ h[m].nVoice = 2
        /\ h[m].netFails = 1
        /\ h[m].nAudio = 0
        /\ h[m].notice = "shown"

\* ------------------------------------------------------------------ C20
\* A handler is inside the constructor of the ASR model / of the TTS engine.
BuildsAsr(m) == h[m].pc = "v_asr_load"
BuildsTts(m) == h[m].pc = "s_tts_load"

C20_OneBuilder ==
    /\ \A m \in Msgs : BuildsAsr(m) => ~asrModel /\ \A k \in Msgs \ {m} : ~BuildsAsr(k)
    /\ \A m \in Msgs : BuildsTts(m) => ~ttsModel /\ \A k \in Msgs \ {m} : ~BuildsTts(k)

C20_BuiltOnce ==
    /\ asrModel => asrModel'
    /\ ttsModel => ttsModel'
    /\ \A m \in Msgs :
        /\ BuildsAsr(m) /\ h'[m].pc = "v_asr_run" => ~asrModel /\ asrModel'
        /\ BuildsTts(m) /\ h'[m].pc = "s_tts_run" => ~ttsModel /\ ttsModel'
        /\ asrModel /\ h[m].pc = "v_status_send" /\ h'[m].pc \notin {"v_status_send", "done"}
           => h'[m].pc = "v_asr_run"
        /\ ttsModel /\ h[m].pc = "s_status_send"
           /\ h'[m].pc \notin {"s_status_send", "notice_send"}
           => h'[m].pc = "s_tts_run"

\* C20: the ASR model and the TTS engine are each constructed with success at
\* most once in the process: a handler is inside a constructor only while the
\* handle is unset and no other handler is inside it, a successful construction
\* sets the handle for good, and a later message goes on with the handle set.
C20_SingleInit == [](C20_OneBuilder) /\ [][C20_BuiltOnce]_vars

\* A voice message is inside transcribe_ru with the model set, while the TTS
\* engine, which this message has not reached yet, is still the one that an
\* earlier message constructed.
C20_Witness ==
    \E m \in Msgs :
        /\ h[m].kind = "voice"
        /\ h[m].pc = "v_asr_run"
        /\ asrModel
        /\ ttsModel

\* ------------------------------------------------------------------ C17 - C18
\* C17: for every non-empty normalized word, kind hint and reserved set,
\* generate_jg returns a string that is not in the reserved set (the string is a
\* function of the arguments: no state and no randomness enter generate_jg).
C17_LeavesReserved ==
    op.name = "generate" /\ ~op.raised => op.out \notin op.reserved

\* C18 as claimed: the tool writes fallback_policy = drop_unknown for every seed.
C18_AlwaysDrop ==
    op.name = "build" /\ ~op.raised => op.out.fallback_policy = "drop_unknown"

\* C18 as amended: the tool writes drop_unknown when the seed declares
\* keep_original or no policy, and the policy the seed declares in every other
\* case.
C18_DefaultOverridden ==
    op.name = "build" /\ ~op.raised =>
        /\ op.seed.fallback_policy \in {"none", "keep_original"}
           => op.out.fallback_policy = "drop_unknown"
        /\ op.seed.fallback_policy \in {"mark_unknown", "drop_unknown"}
           => op.out.fallback_policy = op.seed.fallback_policy
        /\ document = op.out

\* The tool has written a dictionary from a seed that declares keep_original.
C18_Witness ==
    /\ op.name = "build"
    /\ ~op.raised
    /\ op.seed.fallback_policy = "keep_original"
    /\ document.state = "complete"
    /\ document.fallback_policy = "drop_unknown"
    /\ DOMAIN document.ru_to_jg = {<<"a">>, <<"e">>}

====
